---- MODULE Spec2Model ----
(***************************************************************************)
(* autorandr_launcher (contrib/autorandr_launcher/autorandr_launcher.c):   *)
(* a single-threaded process that subscribes to RandR screen change events *)
(* and runs /usr/bin/autorandr, debounced by the event timestamp and by    *)
(* the wall clock.  The model follows main() statement by statement; the   *)
(* X server, the wall clock and the forked child are the environment.      *)
(***************************************************************************)
EXTENDS Integers, Naturals, Sequences, FiniteSets, TLC

\* ---------------------------------------------------------------- bounds
MaxTimestamp == 2      \* event timestamps are drawn from 0..MaxTimestamp
MaxClock == 4          \* the wall clock (whole seconds) stays in 0..MaxClock

\* Events that pass the line-152 test, per run: as many as the launches the
\* clock range has room for (each needs a reading above last_time + 1).
MaxNotifs == MaxClock \div 2

\* ------------------------------------------------------------- constants
SIGHUP == 1                               \* signal.h, line 110
SIGINT == 2                               \* signal.h, line 107
SIGQUIT == 3                              \* signal.h, line 109
SIGTERM == 15                             \* signal.h, line 108
XCB_RANDR_NOTIFY_MASK_SCREEN_CHANGE == 1  \* xcb/randr.h, used on lines 134 and 153
XCB_RANDR_SCREEN_CHANGE_NOTIFY == 0       \* xcb/randr.h: event code relative to the extension's first event
XCB_MAPPING_NOTIFY == 34                  \* xcb/xproto.h: sent to every client
XCB_GE_GENERIC == 35                      \* xcb/xproto.h: generic (extension) event

\* The first event number the server assigned to RandR.  The program never
\* asks for it (no xcb_get_extension_data call); the server picks it.
RandrEventBases == {88, 89}

\* xcb_connection_has_error: 0, or XCB_CONN_ERROR .. XCB_CONN_CLOSED_FDPASSING_FAILED
ConnErrors == 1..7

\* xcb_timestamp_t is uint32_t; the program only copies and compares these
\* values (unsigned >), so a small range of them stands for all.
Timestamps == 0..MaxTimestamp

NoEvent == [response_type |-> -1, timestamp |-> 0]

\* What xcb_wait_for_event can hand back on this connection: errors (0),
\* core events that need no selection, and the two RandR events.
ResponseTypes(base) ==
    {0, XCB_MAPPING_NOTIFY, XCB_GE_GENERIC,
     base + XCB_RANDR_SCREEN_CHANGE_NOTIFY, base + 1}

\* Bytes 4..7 of the event, which line 157 reads as randr_evt->timestamp.
Events(base) ==
    [response_type : ResponseTypes(base), timestamp : Timestamps]

VARIABLES
    pc,              \* position of main()
    help, version, daemonize, VERBOSE,   \* option flags (lines 52-54, 15)
    daemonized,      \* the block of lines 102-112 was run
    first_event,     \* RandR's first event number on the connected server
    exit_code,       \* -1 while the process runs, else its exit status
    clock,           \* what time(NULL) returns now
    last_timestamp,  \* line 137
    last_time,       \* line 138
    evt,             \* line 142
    evt_time,        \* line 156 (-1 outside its scope)
    conn_error,      \* line 116
    genuine,         \* every event recorded in hist was a RandR screen change notification
    pid,             \* ar_launch: return value of fork()
    children,        \* live or unreaped children of this process: pid -> state
    launches,        \* number of ar_launch() calls so far
    outcome,         \* how the last ar_launch() ended
    hist,            \* the events that passed the line-152 test, in order
    sig,             \* the last signal delivered to the process (0: none yet)
    killed_by        \* the signal that terminated the process (0: none)

vars == <<pc, help, version, daemonize, VERBOSE, daemonized, first_event,
          exit_code, clock, last_timestamp, last_time, evt, evt_time, pid,
          children, launches, outcome, hist, conn_error, genuine, sig, killed_by>>

progVars == <<help, version, daemonize, VERBOSE, daemonized, first_event,
              exit_code, last_timestamp, last_time, evt, evt_time, pid,
              children, launches, outcome, hist, conn_error, genuine, sig, killed_by>>

\* --------------------------------------------------------- pure helpers

\* Bitwise AND with a one-bit mask m (a power of two).
BitAnd(x, m) == ((x \div m) % 2) * m

\* Line 152-153: evt->response_type & XCB_RANDR_NOTIFY_MASK_SCREEN_CHANGE
ScreenChangeMasked(e) ==
    BitAnd(e.response_type, XCB_RANDR_NOTIFY_MASK_SCREEN_CHANGE) # 0

\* The X protocol's notion: the event code (without the SendEvent bit 0x80)
\* is RandR's first event plus XCB_RANDR_SCREEN_CHANGE_NOTIFY.
IsScreenChangeNotify(e, base) ==
    (e.response_type % 128) = base + XCB_RANDR_SCREEN_CHANGE_NOTIFY

\* Variants of the trigger test with one slip each.
Trigger_TimeGE(T, now, lts, ltime) ==
    (T > lts) /\ (now >= ltime + 1)

Trigger_Gap2(T, now, lts, ltime) ==
    (T > lts) /\ (now > ltime + 2)

Trigger_Or(T, now, lts, ltime) ==
    (T > lts) \/ (now > ltime + 1)

Trigger_TsGE(T, now, lts, ltime) ==
    (T >= lts) /\ (now > ltime + 1)

Trigger_TimeOnly(T, now, lts, ltime) ==
    now > ltime + 1

\* Variant: the wall-clock test looks at the distance in either direction.
Trigger_TimeAbs(T, now, lts, ltime) ==
    (T > lts) /\ ((now > ltime + 1) \/ (now < ltime - 1))

\* Lines 157-158.
Trigger(T, now, lts, ltime) ==
    (T > lts) /\ (now > ltime + 1)

LiveStates == {"forked", "tool"}
ExitStates == {"exit0", "exit1", "exit127", "signaled"}

Live == {p \in DOMAIN children : children[p] \in LiveStates}

\* --------------------------------------------------------------- startup

Init ==
    /\ pc = "getopt"
    /\ help = 0 /\ version = 0 /\ daemonize = 0 /\ VERBOSE = 0
    /\ daemonized = FALSE
    /\ first_event = 0
    /\ exit_code = -1
    /\ clock = 0
    /\ last_timestamp = 0
    /\ last_time = 0
    /\ evt = NoEvent
    /\ evt_time = -1
    /\ conn_error = 0
    /\ genuine = TRUE
    /\ pid = 0
    /\ children = <<>>
    /\ launches = 0
    /\ outcome = "none"
    /\ hist = <<>>
    /\ sig = 0
    /\ killed_by = 0

\* Lines 77-89: the getopt_long loop; each option is given or not.
ParseOptions ==
    /\ pc = "getopt"
    /\ \E h \in {0, 1}, v \in {0, 1}, d \in {0, 1}, vb \in {0, 1} :
          /\ help' = h /\ version' = v /\ daemonize' = d /\ VERBOSE' = vb
    /\ pc' = "help"
    /\ UNCHANGED <<daemonized, first_event, exit_code, clock, last_timestamp,
                   last_time, evt, evt_time, pid, children, launches,
                   outcome, hist, conn_error, genuine, sig, killed_by>>

\* Variant: the version test of lines 95-98 is missing.
HelpVersion_HelpOnly ==
    /\ pc = "help"
    /\ IF help = 1
          THEN pc' = "exited" /\ exit_code' = 0
          ELSE pc' = "daemonize" /\ exit_code' = exit_code
    /\ UNCHANGED <<help, version, daemonize, VERBOSE, daemonized, first_event,
                   clock, last_timestamp, last_time, evt, evt_time, pid,
                   children, launches, outcome, hist, conn_error, genuine, sig, killed_by>>

\* Lines 91-98.
HelpVersion ==
    /\ pc = "help"
    /\ IF help = 1 \/ version = 1
          THEN pc' = "exited" /\ exit_code' = 0
          ELSE pc' = "daemonize" /\ exit_code' = exit_code
    /\ UNCHANGED <<help, version, daemonize, VERBOSE, daemonized, first_event,
                   clock, last_timestamp, last_time, evt, evt_time, pid,
                   children, launches, outcome, hist, conn_error, genuine, sig, killed_by>>

\* Variant: line 102 tests daemonize alone.
Daemonize_IgnoresVerbose ==
    /\ pc = "daemonize"
    /\ daemonized' = (daemonize = 1)
    /\ pc' = "connect"
    /\ UNCHANGED <<help, version, daemonize, VERBOSE, first_event, exit_code,
                   clock, last_timestamp, last_time, evt, evt_time, pid,
                   children, launches, outcome, hist, conn_error, genuine, sig, killed_by>>

\* Lines 102-112.
Daemonize ==
    /\ pc = "daemonize"
    /\ daemonized' = (daemonize = 1 /\ VERBOSE # 1)
    /\ pc' = "connect"
    /\ UNCHANGED <<help, version, daemonize, VERBOSE, first_event, exit_code,
                   clock, last_timestamp, last_time, evt, evt_time, pid,
                   children, launches, outcome, hist, conn_error, genuine, sig, killed_by>>

\* Variant: exit(1) whatever the error was.
ExitStatus_One(status) == 1

\* exit(status): the parent sees status & 0377.
ExitStatus(status) == status % 256

\* Lines 115-120: xcb_connect, xcb_connection_has_error, exit(conn_error).
Connect ==
    /\ pc = "connect"
    /\ \E err \in {0} \cup ConnErrors, base \in RandrEventBases :
          /\ conn_error' = err
          /\ IF err # 0
                THEN /\ pc' = "exited"
                     /\ exit_code' = ExitStatus(err)
                     /\ first_event' = first_event
                ELSE /\ pc' = "subscribe"
                     /\ exit_code' = exit_code
                     /\ first_event' = base
    /\ UNCHANGED <<help, version, daemonize, VERBOSE, daemonized, clock,
                   last_timestamp, last_time, evt, evt_time, pid, children,
                   launches, outcome, hist, genuine, sig, killed_by>>

\* Variant: line 138 initialises last_time to 0.
Subscribe_TimeZero ==
    /\ pc = "subscribe"
    /\ last_timestamp' = 0
    /\ last_time' = 0
    /\ pc' = "wait"
    /\ UNCHANGED <<help, version, daemonize, VERBOSE, daemonized, first_event,
                   exit_code, clock, evt, evt_time, pid, children, launches,
                   outcome, hist, conn_error, genuine, sig, killed_by>>

\* Variant: line 137 uses a sentinel below every timestamp.
Subscribe_SentinelMinus ==
    /\ pc = "subscribe"
    /\ last_timestamp' = -1
    /\ last_time' = clock
    /\ pc' = "wait"
    /\ UNCHANGED <<help, version, daemonize, VERBOSE, daemonized, first_event,
                   exit_code, clock, evt, evt_time, pid, children, launches,
                   outcome, hist, conn_error, genuine, sig, killed_by>>

\* Lines 122-138: subscribe, then initialise the debounce state.
Subscribe ==
    /\ pc = "subscribe"
    /\ last_timestamp' = 0
    /\ last_time' = clock
    /\ pc' = "wait"
    /\ UNCHANGED <<help, version, daemonize, VERBOSE, daemonized, first_event,
                   exit_code, clock, evt, evt_time, pid, children, launches,
                   outcome, hist, conn_error, genuine, sig, killed_by>>

\* ------------------------------------------------------------- the loop

\* Variant: a NULL event is treated as an error, exit(1).
WaitForEvent_ExitOne ==
    /\ pc = "wait"
    /\ \/ /\ Len(hist) < MaxNotifs
          /\ \E e \in Events(first_event) :
                evt' = e
          /\ pc' = "check"
          /\ exit_code' = exit_code
       \/ /\ evt' = NoEvent
          /\ pc' = "exited"
          /\ exit_code' = 1
    /\ UNCHANGED <<help, version, daemonize, VERBOSE, daemonized, first_event,
                   clock, last_timestamp, last_time, evt_time, pid, children,
                   launches, outcome, hist, conn_error, genuine, sig, killed_by>>

\* Lines 141-145: xcb_wait_for_event returns an event, or NULL (break, and
\* main falls off its end: exit status 0).
WaitForEvent ==
    /\ pc = "wait"
    /\ \/ /\ Len(hist) < MaxNotifs
          /\ \E e \in Events(first_event) :
                evt' = e
          /\ pc' = "check"
          /\ exit_code' = exit_code
       \/ /\ evt' = NoEvent
          /\ pc' = "exited"
          /\ exit_code' = 0
    /\ UNCHANGED <<help, version, daemonize, VERBOSE, daemonized, first_event,
                   clock, last_timestamp, last_time, evt_time, pid, children,
                   launches, outcome, hist, conn_error, genuine, sig, killed_by>>

\* Lines 36-38, in the parent: fork() gives a new child, or fails with -1.
ForkChild ==
    \/ /\ pid' = launches + 1
       /\ children' = [p \in DOMAIN children \cup {launches + 1} |->
                         IF p = launches + 1 THEN "forked" ELSE children[p]]
    \/ /\ pid' = -1
       /\ children' = children

\* Lines 152-160 and 38: the type test, time(NULL), the trigger decision and,
\* on a trigger, the call of ar_launch() up to its fork().
Dispatch ==
    /\ pc = "check"
    /\ IF ScreenChangeMasked(evt)
          THEN /\ evt_time' = clock
               /\ genuine' = (genuine /\ IsScreenChangeNotify(evt, first_event))
               /\ IF Trigger(evt.timestamp, clock, last_timestamp, last_time)
                     THEN /\ launches' = launches + 1
                          /\ ForkChild
                          /\ hist' = Append(hist,
                                [ts |-> evt.timestamp, time |-> clock,
                                 lts |-> last_timestamp, ltime |-> last_time,
                                 launched |-> TRUE])
                          /\ pc' = "waitpid"
                     ELSE /\ hist' = Append(hist,
                                [ts |-> evt.timestamp, time |-> clock,
                                 lts |-> last_timestamp, ltime |-> last_time,
                                 launched |-> FALSE])
                          /\ pc' = "free"
                          /\ UNCHANGED <<launches, pid, children>>
          ELSE /\ pc' = "free"
               /\ UNCHANGED <<evt_time, hist, launches, pid, children,
                              genuine>>
    /\ UNCHANGED <<help, version, daemonize, VERBOSE, daemonized, first_event,
                   exit_code, clock, last_timestamp, last_time, evt, outcome,
                   conn_error, sig, killed_by>>

\* Variant: the parent does not wait for the child (WNOHANG).
Waitpid_NoHang ==
    /\ pc = "waitpid"
    /\ outcome' = "none"
    /\ pid' = 0
    /\ pc' = "update"
    /\ UNCHANGED <<help, version, daemonize, VERBOSE, daemonized, first_event,
                   exit_code, clock, last_timestamp, last_time, evt, evt_time,
                   children, launches, hist, conn_error, genuine, sig, killed_by>>

\* Variant: the wait gives up once the clock is 2 seconds past evt_time.
Waitpid_Timeout ==
    /\ pc = "waitpid"
    /\ clock >= evt_time + 2
    /\ outcome' = "fork_failed"
    /\ pid' = 0
    /\ pc' = "update"
    /\ UNCHANGED <<help, version, daemonize, VERBOSE, daemonized, first_event,
                   exit_code, clock, last_timestamp, last_time, evt, evt_time,
                   children, launches, hist, conn_error, genuine, sig, killed_by>>

\* Line 45: waitpid(pid, 0, 0) blocks until that child has terminated and
\* reaps it; waitpid(-1, ...) is for any child, and fails at once (ECHILD)
\* when there is none.
Waitpid ==
    /\ pc = "waitpid"
    /\ IF pid = -1
          THEN IF DOMAIN children = {}
                  THEN /\ outcome' = "fork_failed"
                       /\ children' = children
                  ELSE \E p \in DOMAIN children :
                          /\ children[p] \in ExitStates
                          /\ outcome' = children[p]
                          /\ children' = [q \in DOMAIN children \ {p} |-> children[q]]
          ELSE /\ pid \in DOMAIN children
               /\ children[pid] \in ExitStates
               /\ outcome' = children[pid]
               /\ children' = [q \in DOMAIN children \ {pid} |-> children[q]]
    /\ pid' = 0
    /\ pc' = "update"
    /\ UNCHANGED <<help, version, daemonize, VERBOSE, daemonized, first_event,
                   exit_code, clock, last_timestamp, last_time, evt, evt_time,
                   launches, hist, conn_error, genuine, sig, killed_by>>

\* Variant: the state is written only when the tool exited with status 0.
Update_OnlyOnSuccess ==
    /\ pc = "update"
    /\ IF outcome = "exit0"
          THEN last_time' = evt_time /\ last_timestamp' = evt.timestamp
          ELSE UNCHANGED <<last_time, last_timestamp>>
    /\ pc' = "free"
    /\ UNCHANGED <<help, version, daemonize, VERBOSE, daemonized, first_event,
                   exit_code, clock, evt, evt_time, pid, children, launches,
                   outcome, hist, conn_error, genuine, sig, killed_by>>

\* Variant: line 161 reads the clock again after the invocation.
Update_TimeAfterLaunch ==
    /\ pc = "update"
    /\ last_time' = clock
    /\ last_timestamp' = evt.timestamp
    /\ pc' = "free"
    /\ UNCHANGED <<help, version, daemonize, VERBOSE, daemonized, first_event,
                   exit_code, clock, evt, evt_time, pid, children, launches,
                   outcome, hist, conn_error, genuine, sig, killed_by>>

\* Lines 161-162.
Update ==
    /\ pc = "update"
    /\ last_time' = evt_time
    /\ last_timestamp' = evt.timestamp
    /\ pc' = "free"
    /\ UNCHANGED <<help, version, daemonize, VERBOSE, daemonized, first_event,
                   exit_code, clock, evt, evt_time, pid, children, launches,
                   outcome, hist, conn_error, genuine, sig, killed_by>>

\* Variant: lines 161-162 placed after the inner if block, so that every
\* event that passed the type test writes the state.
Free_WritesState ==
    /\ pc = "free"
    /\ IF evt_time # -1
          THEN last_time' = evt_time /\ last_timestamp' = evt.timestamp
          ELSE UNCHANGED <<last_time, last_timestamp>>
    /\ evt' = NoEvent
    /\ evt_time' = -1
    /\ outcome' = "none"
    /\ pc' = "wait"
    /\ UNCHANGED <<help, version, daemonize, VERBOSE, daemonized, first_event,
                   exit_code, clock, pid, children, launches, hist,
                   conn_error, genuine, sig, killed_by>>

\* Line 166, and back to the head of the loop: evt is freed and the locals
\* of the loop body go out of scope.
Free ==
    /\ pc = "free"
    /\ evt' = NoEvent
    /\ evt_time' = -1
    /\ outcome' = "none"
    /\ pc' = "wait"
    /\ UNCHANGED <<help, version, daemonize, VERBOSE, daemonized, first_event,
                   exit_code, clock, last_timestamp, last_time, pid,
                   children, launches, hist, conn_error, genuine, sig, killed_by>>

\* ------------------------------------------------------- the environment

\* Lines 39-43, in the child: execve succeeds (the tool runs) ...
ChildExec ==
    /\ \E p \in DOMAIN children :
          /\ children[p] = "forked"
          /\ children' = [children EXCEPT ![p] = "tool"]
    /\ UNCHANGED <<pc, help, version, daemonize, VERBOSE, daemonized,
                   first_event, exit_code, clock, last_timestamp, last_time,
                   evt, evt_time, pid, launches, outcome, hist, conn_error, genuine, sig, killed_by>>

\* ... or execve fails and the child does exit(127).
ChildExecFails ==
    /\ \E p \in DOMAIN children :
          /\ children[p] = "forked"
          /\ children' = [children EXCEPT ![p] = "exit127"]
    /\ UNCHANGED <<pc, help, version, daemonize, VERBOSE, daemonized,
                   first_event, exit_code, clock, last_timestamp, last_time,
                   evt, evt_time, pid, launches, outcome, hist, conn_error, genuine, sig, killed_by>>

\* The tool ends: exit status 0, a non-zero status, or killed by a signal.
ToolExits ==
    /\ \E p \in DOMAIN children, s \in {"exit0", "exit1", "signaled"} :
          /\ children[p] = "tool"
          /\ children' = [children EXCEPT ![p] = s]
    /\ UNCHANGED <<pc, help, version, daemonize, VERBOSE, daemonized,
                   first_event, exit_code, clock, last_timestamp, last_time,
                   evt, evt_time, pid, launches, outcome, hist, conn_error, genuine, sig, killed_by>>

\* The wall clock advances by a second ...
Tick ==
    /\ clock < MaxClock
    /\ clock' = clock + 1
    /\ UNCHANGED <<pc, progVars>>

\* ... or is stepped back (settimeofday, NTP step).
ClockStepBack ==
    /\ clock > 0
    /\ clock' = clock - 1
    /\ UNCHANGED <<pc, progVars>>

Next ==
    \/ ParseOptions
    \/ HelpVersion
    \/ Daemonize
    \/ Connect
    \/ Subscribe
    \/ WaitForEvent
    \/ Dispatch
    \/ Waitpid
    \/ Update
    \/ Free
    \/ ChildExec
    \/ ChildExecFails
    \/ ToolExits
    \/ Tick
    \/ ClockStepBack

Spec == Init /\ [][Next]_vars

\* -------------------------------------------------------------- signals

Signals == {SIGHUP, SIGINT, SIGQUIT, SIGTERM}

\* Lines 103-110: what the process does with signal s.  Before and without
\* the daemonize block every one of them has its default action, which is
\* to terminate the process.
Disposition(s) ==
    IF ~daemonized THEN "default"
    ELSE IF s = SIGHUP THEN "ignore"
    ELSE "handler"

\* Variant: the handler always raises SIGTERM.
sigterm_handler_Term(signum) == SIGTERM

\* Lines 18-22: the handler resets signum to SIG_DFL and sends it to the
\* process itself; it is delivered when the handler returns.  The result is
\* the signal the process dies of.
sigterm_handler(signum) == signum

\* Variant: line 110 is missing, SIGHUP keeps its default action.
Signal_HupDefault ==
    /\ pc \notin {"exited", "killed"}
    /\ \E s \in Signals :
          /\ sig' = s
          /\ killed_by' = IF Disposition(s) = "handler" /\ s # SIGHUP
                             THEN sigterm_handler(s) ELSE s
          /\ pc' = "killed"
    /\ UNCHANGED <<help, version, daemonize, VERBOSE, daemonized, first_event,
                   exit_code, clock, last_timestamp, last_time, evt, evt_time,
                   pid, children, launches, outcome, hist, conn_error, genuine>>

\* A signal is delivered to the running process, at any point of main().
Signal ==
    /\ pc \notin {"exited", "killed"}
    /\ \E s \in Signals :
          /\ sig' = s
          /\ IF Disposition(s) = "ignore"
                THEN /\ sig # s
                     /\ UNCHANGED <<pc, killed_by>>
                ELSE /\ killed_by' = IF Disposition(s) = "handler"
                                        THEN sigterm_handler(s) ELSE s
                     /\ pc' = "killed"
    /\ UNCHANGED <<help, version, daemonize, VERBOSE, daemonized, first_event,
                   exit_code, clock, last_timestamp, last_time, evt, evt_time,
                   pid, children, launches, outcome, hist, conn_error, genuine>>

NextSig == Next \/ Signal

SpecSig == Init /\ [][NextSig]_vars

\* The launcher is a running process: a step of main() that stays possible
\* is taken.  Nothing is assumed of the server, the clock or the children.
SpecFair ==
    /\ Spec
    /\ WF_vars(Dispatch \/ Waitpid \/ Update \/ Free)

\* ------------------------------------------------------------ properties

\* The trigger condition of the specification, on a recorded notification:
\* T > last_triggered_timestamp and now > last_triggered_wallclock + 1.
TriggerCondition(h) == (h.ts > h.lts) /\ (h.time > h.ltime + 1)

\* C1: every event dispatched as a screen-change notification, with timestamp
\* T read at wall-clock second now, started ar_launch() if and only if
\* T > last_timestamp and now > last_time + 1, both on the state it met.
C1_TriggerIff ==
    \A i \in DOMAIN hist : hist[i].launched <=> TriggerCondition(hist[i])

\* Every recorded event really was a RandR screen change notification.
AllGenuine == genuine

\* C1 witness: one notification launched, and another with a newer timestamp
\* was suppressed by the clock condition alone.
C1_Witness ==
    AllGenuine /\ \E i, j \in DOMAIN hist :
        /\ hist[i].launched
        /\ ~hist[j].launched /\ hist[j].ts > hist[j].lts

\* C2: at most one child of the launcher is alive at any time, and while one
\* is alive main() is inside waitpid: it neither waits for nor dispatches
\* another event, whether fork or execve failed or not.
C2_OneInvocation ==
    /\ Cardinality(Live) <= 1
    /\ pc \in {"wait", "check", "update", "free"} => DOMAIN children = {}
    /\ Live # {} => pc = "waitpid" /\ pid \in Live

\* C2 witness: the second invocation of a run is in progress.
C2_Witness ==
    AllGenuine /\ launches = 2 /\ pc = "waitpid" /\ Live # {}

\* Consecutive notifications have strictly increasing timestamps and clock
\* readings at least k seconds apart.
Spaced(k) ==
    \A i \in 2..Len(hist) :
        /\ hist[i].ts > hist[i-1].ts
        /\ hist[i].time >= hist[i-1].time + k

AllLaunched == launches = Len(hist) /\ \A i \in DOMAIN hist : hist[i].launched

\* C3 as stated (granting that the first notification of the run launched):
\* strictly increasing timestamps at least 1 second apart give one invocation
\* per notification.
C3_Original ==
    (AllGenuine /\ (Len(hist) >= 1 => hist[1].launched) /\ Spaced(1))
        => AllLaunched

\* C3, amended: strictly increasing timestamps, the first non-zero and read
\* more than 1 second after the start-up reading, each later one read at
\* least 2 seconds after the one before, give one invocation per notification.
C3_Amended ==
    ( /\ Len(hist) >= 1 => hist[1].ts > 0 /\ hist[1].time > hist[1].ltime + 1
      /\ Spaced(2) ) => AllLaunched

\* C3 witness: two notifications 2 seconds apart, two invocations.
C3_Witness ==
    /\ AllGenuine /\ Len(hist) = 2 /\ launches = 2
    /\ hist[1].ts > 0 /\ hist[1].time > hist[1].ltime + 1
    /\ hist[2].ts > hist[1].ts /\ hist[2].time = hist[1].time + 2

\* Notifications i..j (i < j) form a burst: read in the same wall-clock
\* second, with strictly increasing timestamps.
Burst(i, j) ==
    /\ i < j
    /\ \A k \in (i+1)..j :
          hist[k].time = hist[i].time /\ hist[k].ts > hist[k-1].ts

\* The burst i..j caused exactly one invocation, for its first notification,
\* and, when nothing came after it, left the state at that notification.
BurstCollapsed(i, j) ==
    /\ hist[i].launched
    /\ \A k \in (i+1)..j : ~hist[k].launched
    /\ j = Len(hist) =>
          last_timestamp = hist[i].ts /\ last_time = hist[i].time

\* C4 as stated: every burst gives exactly one invocation, for its first
\* notification, and ends with the state at that notification.
C4_Original ==
    AllGenuine =>
        \A i, j \in DOMAIN hist : Burst(i, j) => BurstCollapsed(i, j)

\* C4, amended: every burst whose first notification satisfies the trigger
\* condition gives exactly one invocation, for that first notification, and
\* ends with the state at that notification.
C4_Amended ==
    \A i, j \in DOMAIN hist :
        (Burst(i, j) /\ TriggerCondition(hist[i])) => BurstCollapsed(i, j)

\* C4 witness: a burst of two whose first launched and whose second, with a
\* higher timestamp, did not; the loop is waiting again.
C4_Witness ==
    /\ AllGenuine /\ Len(hist) = 2 /\ Burst(1, 2) /\ pc = "wait"
    /\ hist[1].launched /\ ~hist[2].launched
    /\ last_timestamp = hist[1].ts /\ last_time = hist[1].time

\* C5: a notification with timestamp <= last_timestamp never launches,
\* whatever the clock reads; so a timestamp that launched once never
\* launches again, nor does any older one.
C5_StaleNeverLaunches ==
    /\ \A i \in DOMAIN hist : hist[i].ts <= hist[i].lts => ~hist[i].launched
    /\ \A i, j \in DOMAIN hist :
          (i < j /\ hist[i].launched /\ hist[j].ts <= hist[i].ts)
             => ~hist[j].launched

\* C5 witness: the timestamp that launched is submitted again more than a
\* second later, and does not launch.
C5_Witness ==
    /\ AllGenuine /\ Len(hist) = 2
    /\ hist[1].launched /\ hist[2].ts = hist[1].ts
    /\ hist[2].time > hist[2].ltime + 1 /\ ~hist[2].launched

\* C6: last_timestamp never decreases.
C6_Monotonic ==
    [][last_timestamp' >= last_timestamp]_vars

\* C6 witness: an older timestamp was received after a newer one launched.
C6_Witness ==
    /\ AllGenuine /\ last_timestamp > 0
    /\ \E i \in DOMAIN hist : hist[i].ts < hist[i].lts
                              /\ hist[i].time > hist[i].ltime + 1

\* C7: a dispatch that does not trigger leaves last_timestamp and last_time
\* alone and starts no child; after their initialisation the two are
\* written only by the step that follows a launch, for the launching event.
C7_Frame ==
    [][ /\ (pc = "check" /\ pc' = "free") =>
              UNCHANGED <<last_timestamp, last_time, children, launches>>
        /\ (pc # "subscribe" /\ <<last_timestamp, last_time>>' #
                                <<last_timestamp, last_time>>) =>
              /\ pc = "update"
              /\ hist # <<>> /\ hist[Len(hist)].launched
              /\ hist[Len(hist)].ts = evt.timestamp
              /\ hist[Len(hist)].time = evt_time ]_vars

\* C7 witness: a suppressed notification has been handled after a launch and
\* the state is still the one the launch wrote.
C7_Witness ==
    /\ AllGenuine /\ Len(hist) = 2 /\ pc = "free"
    /\ hist[1].launched /\ ~hist[2].launched
    /\ hist[2].ts # hist[1].ts /\ hist[2].time # hist[1].time
    /\ last_timestamp = hist[1].ts /\ last_time = hist[1].time

\* C8: an event reaches the debounce filter (its time is sampled, it may
\* launch and write the state) only if it is a RandR screen change
\* notification.
C8_OnlyScreenChange ==
    evt_time # -1 => IsScreenChangeNotify(evt, first_event)

FailedOutcomes == {"fork_failed", "exit127", "exit1", "signaled"}

\* C9: after a failed invocation the process is still running, at the
\* state update or just past it, and the update wrote the triggering
\* event's timestamp and time, as after a successful invocation.
C9_FailureNonFatal ==
    outcome # "none" =>
        /\ pc \in {"update", "free"}
        /\ exit_code = -1
        /\ pc = "free" => last_timestamp = evt.timestamp /\ last_time = evt_time

\* C9 witness: execve failed in the child, and the state has been advanced.
C9_Witness ==
    /\ AllGenuine /\ outcome = "exit127" /\ pc = "free"
    /\ last_timestamp = evt.timestamp /\ last_time = evt_time
    /\ hist[Len(hist)].ts > hist[Len(hist)].lts

\* C10: a connection error ends the process at once with the error code as
\* exit status, non-zero, with no event received and no invocation.
C10_ConnectFailure ==
    conn_error # 0 =>
        /\ pc = "exited"
        /\ exit_code = conn_error /\ exit_code # 0
        /\ hist = <<>> /\ launches = 0 /\ children = <<>>
        /\ evt = NoEvent /\ evt_time = -1

\* C10 witness: the process has exited with the highest connection error.
C10_Witness ==
    conn_error = 7 /\ pc = "exited" /\ exit_code = 7

\* The positions of main() inside the event loop.
LoopPcs == {"wait", "check", "waitpid", "update", "free"}

\* C11: when xcb_wait_for_event returns NULL the loop ends and the process
\* exits with status 0, with the state as it was; once exited, no event is
\* processed, no child is started and nothing of the program changes.
C11_NullEventExits ==
    [][ /\ (pc = "wait" /\ pc' = "exited") =>
              /\ exit_code' = 0
              /\ evt' = NoEvent
              /\ UNCHANGED <<hist, launches, children, last_timestamp, last_time>>
        /\ pc = "exited" =>
              /\ pc' = "exited"
              /\ UNCHANGED <<exit_code, hist, launches, children, evt,
                             evt_time, last_timestamp, last_time>> ]_vars

\* C11 witness: the channel closed after a notification had launched the
\* tool; the process has exited with status 0.
C11_Witness ==
    /\ pc = "exited" /\ exit_code = 0
    /\ help = 0 /\ version = 0 /\ conn_error = 0
    /\ genuine /\ launches = 1 /\ children = <<>>

TermSignals == {SIGINT, SIGTERM, SIGQUIT}

\* C12: in a daemonized process, SIGINT, SIGTERM or SIGQUIT delivered at any
\* point terminates the process by that same signal; the step reads no event
\* and leaves the children alone, and afterwards the process reads no event
\* and starts no child.
C12_SignalTerminates ==
    [][ /\ (daemonized /\ sig' # sig /\ sig' \in TermSignals) =>
              /\ pc' = "killed" /\ killed_by' = sig'
              /\ UNCHANGED <<children, hist, launches, evt, exit_code,
                             last_timestamp, last_time>>
        /\ pc = "killed" =>
              /\ pc' = "killed"
              /\ UNCHANGED <<killed_by, exit_code, hist, launches, evt,
                             evt_time, last_timestamp, last_time>>
              /\ DOMAIN children' = DOMAIN children ]_vars

\* C12 witness: the daemon was killed by SIGQUIT during an invocation, and
\* the tool it had started is still running.
C12_Witness ==
    /\ daemonized /\ pc = "killed" /\ killed_by = SIGQUIT
    /\ \E p \in DOMAIN children : children[p] = "tool"

\* C13: the daemonize block is run if and only if daemonize was requested
\* and verbose was not.
C13_DaemonizeIff ==
    /\ daemonized => (daemonize = 1 /\ VERBOSE = 0)
    /\ (pc \in LoopPcs \cup {"connect", "subscribe"}
          \/ (pc = "exited" /\ help = 0 /\ version = 0)) =>
            (daemonized <=> (daemonize = 1 /\ VERBOSE # 1))

\* C13 witness: daemonize and verbose were both requested and the process
\* is in its loop, not daemonized.
C13_Witness ==
    daemonize = 1 /\ VERBOSE = 1 /\ ~daemonized /\ pc = "wait"

\* C14: in a daemonized process SIGHUP is ignored: its delivery does not
\* terminate the process, moves main() nowhere, starts no child and leaves
\* the debounce state alone.
C14_HangupIgnored ==
    [][ (daemonized /\ sig' # sig /\ sig' = SIGHUP) =>
            /\ pc' = pc /\ killed_by' = 0
            /\ UNCHANGED <<children, hist, launches, evt, evt_time, exit_code,
                           last_timestamp, last_time>> ]_vars

\* C14 witness: SIGHUP was delivered during an invocation, which went on and
\* ended; the daemon is at the state update.
C14_Witness ==
    daemonized /\ sig = SIGHUP /\ pc = "update" /\ killed_by = 0

\* C15: with help or version requested the process exits with status 0 right
\* after the options: it has not daemonized, not connected, not received an
\* event and not started the tool, whatever daemonize and verbose are.
C15_HelpVersionOnly ==
    (pc \notin {"getopt", "help"} /\ (help = 1 \/ version = 1)) =>
        /\ pc = "exited" /\ exit_code = 0
        /\ ~daemonized
        /\ first_event = 0 /\ conn_error = 0
        /\ evt = NoEvent /\ hist = <<>> /\ launches = 0 /\ children = <<>>

\* C15 witness: version was requested together with daemonize.
C15_Witness ==
    version = 1 /\ help = 0 /\ daemonize = 1 /\ pc = "exited" /\ exit_code = 0

\* C16: last_time is initialised to the clock reading taken after
\* subscribing and stays at it until the first launch, so no notification
\* handled at most 1 second after that reading launches the tool, whatever
\* its timestamp.
C16_StartupQuiet ==
    [][ /\ (pc = "subscribe" /\ pc' = "wait") => last_time' = clock
        /\ (pc \in LoopPcs /\ launches' = 0) => last_time' = last_time
        /\ \A i \in DOMAIN hist' :
              hist'[i].time <= hist'[1].ltime + 1 => ~hist'[i].launched ]_vars

\* C16 witness: a notification with a fresh timestamp handled 1 second after
\* startup launched nothing; the next one, later, did.
C16_Witness ==
    /\ genuine /\ Len(hist) = 2
    /\ hist[1].ts > 0 /\ hist[1].time = hist[1].ltime + 1 /\ ~hist[1].launched
    /\ hist[2].launched /\ hist[2].time > hist[1].ltime + 1

\* C17: the clock is sampled when the event is dispatched; while the
\* invocation runs the debounce state holds the values it had at the
\* decision; the state written afterwards is the event's timestamp and the
\* time sampled at dispatch.
C17_WriteAfterInvocation ==
    [][ /\ (pc = "check" /\ pc' = "waitpid") =>
              /\ evt_time' = clock
              /\ UNCHANGED <<last_timestamp, last_time>>
        /\ pc' \in {"waitpid", "update"} =>
              /\ last_timestamp' = hist'[Len(hist')].lts
              /\ last_time' = hist'[Len(hist')].ltime
              /\ evt_time' = hist'[Len(hist')].time
        /\ (pc = "update" /\ pc' = "free") =>
              /\ last_time' = hist[Len(hist)].time
              /\ last_timestamp' = hist[Len(hist)].ts ]_vars

\* C17 witness: the state was written after an invocation during which the
\* clock advanced by 2 seconds; last_time is the reading taken before it.
C17_Witness ==
    /\ pc = "free" /\ outcome \in ExitStates /\ genuine
    /\ last_time = evt_time /\ last_timestamp = evt.timestamp
    /\ clock >= evt_time + 2

\* main() is blocked in waitpid on a child that has not terminated.
Blocked == pc = "waitpid" /\ pid \in Live

\* C18: while the child has not terminated main() stays in waitpid, takes no
\* event, starts no child and does not exit; and whenever main() is handling
\* an event and is not held by a running child, it comes to the wait for the
\* next event, or to the blocking wait for a child it has just started.
C18_NoTimeout ==
    /\ [][ Blocked =>
             /\ pc' = "waitpid"
             /\ UNCHANGED <<evt, hist, launches, exit_code, pid,
                            last_timestamp, last_time>> ]_vars
    /\ (pc \in {"check", "waitpid", "update", "free"} /\ ~Blocked)
          ~> (pc = "wait" \/ Blocked)

\* C18 witness: the tool has been running for 2 seconds and main() is still
\* in waitpid.
C18_Witness ==
    /\ Blocked /\ children[pid] = "tool"
    /\ clock >= evt_time + 2

\* The launched entries of hist, in order.
Launched == {i \in DOMAIN hist : hist[i].launched}

\* C19: of two invocations the later one has a clock reading at least 2
\* above and a timestamp strictly above the earlier one's; every launch has
\* a reading above last_time + 1; and each write of the state after a launch
\* raises last_time by at least 2 and last_timestamp by at least 1, whatever
\* the clock did in between.
C19_LaunchesIncrease ==
    [][ /\ \A i, j \in Launched' :
              i < j => /\ hist'[j].time >= hist'[i].time + 2
                       /\ hist'[j].ts > hist'[i].ts
        /\ \A i \in Launched' : hist'[i].time > hist'[i].ltime + 1
        /\ (pc = "update" /\ pc' = "free") =>
              /\ last_time' >= last_time + 2
              /\ last_timestamp' > last_timestamp ]_vars

\* C19 witness: two invocations 2 seconds apart, and the clock stepped back
\* below last_time afterwards.
C19_Witness ==
    /\ genuine /\ pc = "wait" /\ Launched = {1, 2}
    /\ hist[2].time = hist[1].time + 2
    /\ last_time = hist[2].time /\ clock < last_time

\* C20: last_timestamp is never below 0, so an event with timestamp 0 never
\* launches the tool.
C20_ZeroNeverLaunches ==
    /\ last_timestamp >= 0
    /\ \A i \in DOMAIN hist : hist[i].ts = 0 => ~hist[i].launched

\* C20 witness: the first notification, 2 seconds or more after startup,
\* carried timestamp 0 and launched nothing.
C20_Witness ==
    /\ genuine /\ Len(hist) >= 1
    /\ hist[1].ts = 0 /\ hist[1].time > hist[1].ltime + 1
    /\ ~hist[1].launched

====
